---- MODULE Spec2Model ----
(***************************************************************************)
(* Go-Mongo-Helper: the generic Repository over one MongoDB collection     *)
(* (mongodb/repository.go), the BaseModel document contract and the filter *)
(* builder.  The collection behind r.db is the environment: a set of BSON  *)
(* documents with a unique _id, whose calls may fail.                      *)
(***************************************************************************)
EXTENDS Integers, Sequences, FiniteSets, TLC

\* ---------------------------------------------------------------- bounds
NumDocs == 2      \* documents (pointers) the caller holds
MaxId == 3        \* ObjectIDs primitive.NewObjectID can still hand out
MaxTime == 4      \* last clock reading (in ticks)
TicksPerMs == 2   \* clock ticks per BSON millisecond
MaxBatch == 2     \* longest slice handed to InsertMany
MaxBulk == 1      \* longest slice handed to BulkWrite
MaxSteps == 3     \* writing calls made in one session
MaxReads == 1     \* reading calls made between two writing calls
MaxCalls == 1     \* calls one caller makes while the callers run concurrently

Refs == 1..NumDocs
Names == {"a", "b"}
Ids == 1..MaxId
NilObjectID == 0
ZeroTime == 0
ClockStart == TicksPerMs + 1

\* mem, store, now, nextId: the callers' documents, the collection, the clock and
\* the ObjectID generator; last, steps, reads: the last call of a single caller;
\* repo: the Repository struct; frames: the call each concurrent caller is in;
\* calls: the calls the collection has served, in the order it served them
VARIABLES mem, store, now, nextId, last, steps, reads, repo, frames, calls
vars == <<mem, store, now, nextId, last, steps, reads, repo, frames, calls>>

\* ------------------------------------------------------- document contract
\* User{BaseModel, Name}: the zero value of the struct
ZeroDoc == [id |-> NilObjectID, createdAt |-> ZeroTime, updatedAt |-> ZeroTime, name |-> ""]

NewUser(n) == [ZeroDoc EXCEPT !.name = n]

InitMongoIDAlways(b, fresh) == [b EXCEPT !.id = fresh]

InitMongoID(b, fresh) == IF b.id = NilObjectID THEN [b EXCEPT !.id = fresh] ELSE b

ResetMongoID(b) == [b EXCEPT !.id = NilObjectID]

SetCreatedAtValueReceiver(b, t) == b

SetCreatedAt(b, t) == [b EXCEPT !.createdAt = t]

SetUpdatedAtValueReceiver(b, t) == b

SetUpdatedAt(b, t) == [b EXCEPT !.updatedAt = t]

InitDocument(b, fresh, t1, t2) == SetUpdatedAt(SetCreatedAt(InitMongoID(b, fresh), t1), t2)

GetDoc(b) == b

StampUpdatedFirst(b, fresh, t1, t2) == SetCreatedAt(SetUpdatedAt(InitMongoID(b, fresh), t1), t2)

\* the insert path of the repository: InitMongoID, SetCreatedAt(time.Now()), SetUpdatedAt(time.Now())
Stamp(b, fresh, t1, t2) == SetUpdatedAt(SetCreatedAt(InitMongoID(b, fresh), t1), t2)

\* ------------------------------------------------------------------ BSON
\* a time.Time is stored as a BSON datetime: milliseconds
Trunc(t) == (t \div TicksPerMs) * TicksPerMs

\* bson:"_id,omitempty": a zero _id is left out (kept as NilObjectID here)
Marshal(b) == [id |-> b.id, createdAt |-> Trunc(b.createdAt), updatedAt |-> Trunc(b.updatedAt), name |-> b.name]

Decode(d) == [id |-> d.id, createdAt |-> d.createdAt, updatedAt |-> d.updatedAt, name |-> d.name]

\* ---------------------------------------------------------------- filters
\* primitive.M restricted to the keys "_id" and "name"
EmptyM == [keys |-> {}, id |-> NilObjectID, name |-> ""]

WithMongoIDNoKey(m, id) == [m EXCEPT !.id = id]

WithMongoID(m, id) == [m EXCEPT !.keys = @ \cup {"_id"}, !.id = id]

NewFilter(opts) == IF opts = <<>> THEN EmptyM ELSE WithMongoID(EmptyM, opts[1])

MongoIDFilter(id) == NewFilter(<<id>>)

NameFilter(n) == [EmptyM EXCEPT !.keys = {"name"}, !.name = n]

LenM(m) == Cardinality(m.keys)

Filters == {EmptyM} \cup {MongoIDFilter(i) : i \in Ids} \cup {NameFilter(n) : n \in Names}

Datas == {NameFilter(n) : n \in Names} \cup {MongoIDFilter(i) : i \in Ids}

Matches(d, f) == /\ ("_id" \in f.keys => d.id = f.id)
                 /\ ("name" \in f.keys => d.name = f.name)

Matching(s, f) == {d \in s : Matches(d, f)}

\* ------------------------------------------------- the collection (r.db)
\* every call to the collection either fails as a whole (network, context) or acts
ServerTimes == {Trunc(t) : t \in ClockStart..MaxTime}

HasId(s, id) == \E e \in s : e.id = id

\* Collection.InsertOne: the _id is unique
StoreInsertOne(s, d, fail) ==
  IF fail \/ HasId(s, d.id) THEN [err |-> "store", store |-> s]
  ELSE [err |-> "", store |-> s \cup {d}]

\* Collection.InsertMany (ordered): rejects an empty slice; stops at the first
\* duplicate key, keeping what it wrote
RECURSIVE InsertOrdered(_, _, _)
InsertOrdered(s, docs, i) ==
  IF i > Len(docs) THEN [err |-> "", store |-> s]
  ELSE IF HasId(s, docs[i].id) THEN [err |-> "store", store |-> s]
  ELSE InsertOrdered(s \cup {docs[i]}, docs, i + 1)

StoreInsertMany(s, docs, fail) ==
  IF fail \/ Len(docs) = 0 THEN [err |-> "store", store |-> s] ELSE InsertOrdered(s, docs, 1)

ApplySetNoCurrentDate(d, data, srvT) ==
  [d EXCEPT !.name = IF "name" \in data.keys THEN data.name ELSE @]

\* {"$set": data, "$currentDate": {"updatedAt": true}} applied to one stored document
ApplySet(d, data, srvT) ==
  [d EXCEPT !.name = IF "name" \in data.keys THEN data.name ELSE @,
            !.updatedAt = srvT]

\* the _id of a stored document is immutable
SetAllowed(d, data) == "_id" \in data.keys => data.id = d.id

\* the replacement keeps the stored _id; a different non-zero _id is rejected
ReplaceAllowed(d, repl) == repl.id = NilObjectID \/ repl.id = d.id

Replacement(d, repl) == [repl EXCEPT !.id = d.id]

\* cursor order: by _id
RECURSIVE SetToSeq(_)
SetToSeq(s) ==
  IF s = {} THEN <<>>
  ELSE LET d == CHOOSE x \in s : \A y \in s : x.id <= y.id
       IN <<d>> \o SetToSeq(s \ {d})

DecodeAll(ds) == [i \in 1..Len(ds) |-> Decode(ds[i])]

\* ------------------------------------------------------ operation record
Ret(op, refs, filter, data, size, called, err, res, n) ==
  [op |-> op, refs |-> refs, filter |-> filter, data |-> data, size |-> size,
   called |-> called, err |-> err, res |-> res, n |-> n, old |-> <<>>, at |-> ZeroTime]

\* the same, with the stored document the call matched and the collection's time
RetOld(rec, d, t) == [rec EXCEPT !.old = <<d>>, !.at = t]

\* Repository{db: db.Collection(name)}
NewRepository(name) == [db |-> name]

\* the frame of a caller that is in no call and has made none
IdleFrame ==
  [pc |-> "idle", op |-> "", filter |-> EmptyM, cur |-> <<>>,
   err |-> "", res |-> <<>>, n |-> 0, at |-> 0, made |-> 0]

Init ==
  /\ mem = [r \in Refs |-> NewUser("a")]
  /\ store = {}
  /\ now = ClockStart
  /\ nextId = 1
  /\ last = Ret("NewRepository", <<>>, EmptyM, EmptyM, 0, FALSE, "", <<>>, 0)
  /\ steps = 0
  /\ reads = 0
  /\ repo = NewRepository("users")
  /\ frames = [p \in Refs |-> IdleFrame]
  /\ calls = <<>>

\* one more writing call of the session; no method assigns to r.db
Step ==
  /\ steps < MaxSteps
  /\ steps' = steps + 1
  /\ reads' = 0
  /\ UNCHANGED <<repo, frames, calls>>

\* one more reading call since the last writing call
Read ==
  /\ reads < MaxReads
  /\ reads' = reads + 1
  /\ steps' = steps
  /\ UNCHANGED <<repo, frames, calls>>

\* ------------------------------------------------------ caller's own steps
\* insertedUser.Name = "Willy2"
SetName(r, n) ==
  /\ Step
  /\ mem[r].name # n
  /\ mem' = [mem EXCEPT ![r].name = n]
  /\ last' = Ret("SetName", <<r>>, EmptyM, EmptyM, 0, FALSE, "", <<>>, 0)
  /\ UNCHANGED <<store, now, nextId>>

DocInitMongoID(r) ==
  /\ Step
  /\ (mem[r].id = NilObjectID => nextId <= MaxId)
  /\ mem' = [mem EXCEPT ![r] = InitMongoID(@, nextId)]
  /\ nextId' = IF mem[r].id = NilObjectID THEN nextId + 1 ELSE nextId
  /\ last' = Ret("InitMongoID", <<r>>, EmptyM, EmptyM, 0, FALSE, "", <<>>, 0)
  /\ UNCHANGED <<store, now>>

DocResetMongoID(r) ==
  /\ Step
  /\ mem' = [mem EXCEPT ![r] = ResetMongoID(@)]
  /\ last' = Ret("ResetMongoID", <<r>>, EmptyM, EmptyM, 0, FALSE, "", <<>>, 0)
  /\ UNCHANGED <<store, now, nextId>>

DocInitDocument(r) ==
  /\ Step
  /\ \E t1 \in now..MaxTime : \E t2 \in t1..MaxTime :
    /\ (mem[r].id = NilObjectID => nextId <= MaxId)
    /\ mem' = [mem EXCEPT ![r] = InitDocument(@, nextId, t1, t2)]
    /\ nextId' = IF mem[r].id = NilObjectID THEN nextId + 1 ELSE nextId
    /\ now' = t2
    /\ last' = Ret("InitDocument", <<r>>, EmptyM, EmptyM, 0, FALSE, "", <<>>, 0)
    /\ UNCHANGED store

\* ------------------------------------------------------------ Repository
FindOne(f) ==
  /\ Read
  /\ \E fail \in BOOLEAN :
       \/ /\ fail
          /\ last' = Ret("FindOne", <<>>, f, EmptyM, 0, TRUE, "store", <<ZeroDoc>>, 0)
       \/ /\ ~fail
          /\ Matching(store, f) = {}
          /\ last' = Ret("FindOne", <<>>, f, EmptyM, 0, TRUE, "notfound", <<ZeroDoc>>, 0)
       \/ /\ ~fail
          /\ \E d \in Matching(store, f) :
               last' = Ret("FindOne", <<>>, f, EmptyM, 0, TRUE, "", <<Decode(d)>>, 0)
  /\ UNCHANGED <<mem, store, now, nextId>>

FindMany(f) ==
  /\ Read
  /\ \E fail \in BOOLEAN :
       last' = IF fail
               THEN Ret("FindMany", <<>>, f, EmptyM, 0, TRUE, "store", <<>>, 0)
               ELSE Ret("FindMany", <<>>, f, EmptyM, 0, TRUE, "",
                        DecodeAll(SetToSeq(Matching(store, f))), 0)
  /\ UNCHANGED <<mem, store, now, nextId>>

InsertOne(r) ==
  /\ Step
  /\ \E t1 \in now..MaxTime : \E t2 \in t1..MaxTime : \E fail \in BOOLEAN :
    LET doc == Stamp(mem[r], nextId, t1, t2)
        out == StoreInsertOne(store, Marshal(doc), fail)
    IN /\ (mem[r].id = NilObjectID => nextId <= MaxId)
       /\ mem' = [mem EXCEPT ![r] = doc]
       /\ nextId' = IF mem[r].id = NilObjectID THEN nextId + 1 ELSE nextId
       /\ now' = t2
       /\ store' = out.store
       /\ last' = Ret("InsertOne", <<r>>, EmptyM, EmptyM, 0, TRUE, out.err, <<GetDoc(doc)>>, 0)

\* the clock readings of one call: each time.Now() is no earlier than the one before
RECURSIVE TimeSeqs(_, _)
TimeSeqs(n, t) ==
  IF n = 0 THEN {<<>>}
  ELSE UNION {{<<u>> \o ts : ts \in TimeSeqs(n - 1, u)} : u \in t..MaxTime}

\* the loop of InsertMany over documents[i]: stamps the document behind each pointer
\* and keeps its copy; ok is FALSE when the ObjectIDs of the model are used up
RECURSIVE StampAll(_, _, _, _, _, _)
StampAllCopyFirst(m, refs, i, nid, ts, copies) ==
  IF i > Len(refs) THEN [mem |-> m, nid |-> nid, copies |-> copies, ok |-> TRUE]
  ELSE LET r == refs[i]
           doc == Stamp(m[r], nid, ts[2 * i - 1], ts[2 * i])
       IN IF m[r].id = NilObjectID /\ nid > MaxId
          THEN [mem |-> m, nid |-> nid, copies |-> copies, ok |-> FALSE]
          ELSE StampAll([m EXCEPT ![r] = doc], refs, i + 1,
                        IF m[r].id = NilObjectID THEN nid + 1 ELSE nid,
                        ts, Append(copies, GetDoc(m[r])))

StampAll(m, refs, i, nid, ts, copies) ==
  IF i > Len(refs) THEN [mem |-> m, nid |-> nid, copies |-> copies, ok |-> TRUE]
  ELSE LET r == refs[i]
           doc == Stamp(m[r], nid, ts[2 * i - 1], ts[2 * i])
       IN IF m[r].id = NilObjectID /\ nid > MaxId
          THEN [mem |-> m, nid |-> nid, copies |-> copies, ok |-> FALSE]
          ELSE StampAll([m EXCEPT ![r] = doc], refs, i + 1,
                        IF m[r].id = NilObjectID THEN nid + 1 ELSE nid,
                        ts, Append(copies, GetDoc(doc)))

Batches == UNION {[1..n -> Refs] : n \in 0..MaxBatch}

InsertManyUnguarded(refs) ==
  /\ Step
  /\ \E ts \in TimeSeqs(2 * Len(refs), now) : \E fail \in BOOLEAN :
       LET st == StampAll(mem, refs, 1, nextId, ts, <<>>)
           docs == [i \in 1..Len(refs) |-> Marshal(st.mem[refs[i]])]
           out == StoreInsertMany(store, docs, fail)
       IN /\ st.ok
          /\ mem' = st.mem
          /\ nextId' = st.nid
          /\ now' = IF Len(ts) = 0 THEN now ELSE ts[Len(ts)]
          /\ store' = out.store
          /\ last' = Ret("InsertMany", refs, EmptyM, EmptyM, Len(refs), TRUE, out.err,
                         IF out.err = "" THEN st.copies ELSE <<>>, 0)

InsertMany(refs) ==
  /\ Step
  /\ \/ /\ Len(refs) <= 0
        /\ last' = Ret("InsertMany", refs, EmptyM, EmptyM, 0, FALSE, "", <<>>, 0)
        /\ UNCHANGED <<mem, store, now, nextId>>
     \/ /\ Len(refs) > 0
        /\ \E ts \in TimeSeqs(2 * Len(refs), now) : \E fail \in BOOLEAN :
             LET st == StampAll(mem, refs, 1, nextId, ts, <<>>)
                 docs == [i \in 1..Len(refs) |-> Marshal(st.mem[refs[i]])]
                 out == StoreInsertMany(store, docs, fail)
             IN /\ st.ok
                /\ mem' = st.mem
                /\ nextId' = st.nid
                /\ now' = ts[Len(ts)]
                /\ store' = out.store
                /\ last' = Ret("InsertMany", refs, EmptyM, EmptyM, Len(refs), TRUE, out.err,
                               IF out.err = "" THEN st.copies ELSE <<>>, 0)

UpdateOne(f, data) ==
  /\ Step
  /\ \E fail \in BOOLEAN : \E srvT \in ServerTimes :
       \/ /\ fail
          /\ store' = store
          /\ last' = Ret("UpdateOne", <<>>, f, data, 0, TRUE, "store", <<>>, 0)
       \/ /\ ~fail
          /\ Matching(store, f) = {}
          /\ store' = store
          /\ last' = Ret("UpdateOne", <<>>, f, data, 0, TRUE, "", <<>>, 0)
       \/ /\ ~fail
          /\ \E d \in Matching(store, f) :
               IF SetAllowed(d, data)
               THEN /\ store' = (store \ {d}) \cup {ApplySet(d, data, srvT)}
                    /\ last' = RetOld(Ret("UpdateOne", <<>>, f, data, 0, TRUE, "",
                                           <<ApplySet(d, data, srvT)>>, 1), d, srvT)
               ELSE /\ store' = store
                    /\ last' = Ret("UpdateOne", <<>>, f, data, 0, TRUE, "store", <<>>, 0)
  /\ UNCHANGED <<mem, now, nextId>>

UpdateMany(f, data) ==
  /\ Step
  /\ \E fail \in BOOLEAN : \E srvT \in ServerTimes :
       IF fail
       THEN /\ store' = store
            /\ last' = Ret("UpdateMany", <<>>, f, data, 0, TRUE, "store", <<>>, 0)
       ELSE /\ store' = (store \ Matching(store, f))
                          \cup {ApplySet(d, data, srvT) : d \in Matching(store, f)}
            /\ last' = Ret("UpdateMany", <<>>, f, data, 0, TRUE, "", <<>>, 0)
  /\ UNCHANGED <<mem, now, nextId>>

ReplaceOne(f, r) ==
  /\ Step
  /\ \E t \in now..MaxTime : \E fail \in BOOLEAN :
    LET doc == SetUpdatedAt(mem[r], t)
        repl == Marshal(doc)
    IN /\ mem' = [mem EXCEPT ![r] = doc]
       /\ now' = t
       /\ UNCHANGED nextId
       /\ \/ /\ fail
             /\ store' = store
             /\ last' = Ret("ReplaceOne", <<r>>, f, EmptyM, 0, TRUE, "store", <<GetDoc(doc)>>, 0)
          \/ /\ ~fail
             /\ Matching(store, f) = {}
             /\ store' = store
             /\ last' = Ret("ReplaceOne", <<r>>, f, EmptyM, 0, TRUE, "", <<GetDoc(doc)>>, 0)
          \/ /\ ~fail
             /\ \E d \in Matching(store, f) :
                  IF ReplaceAllowed(d, repl)
                  THEN /\ store' = (store \ {d}) \cup {Replacement(d, repl)}
                       /\ last' = RetOld(Ret("ReplaceOne", <<r>>, f, EmptyM, 0, TRUE, "",
                                              <<GetDoc(doc)>>, 1), d, ZeroTime)
                  ELSE /\ store' = store
                       /\ last' = Ret("ReplaceOne", <<r>>, f, EmptyM, 0, TRUE, "store", <<GetDoc(doc)>>, 0)

DeleteOne(f) ==
  /\ Step
  /\ \/ /\ LenM(f) = 0
        /\ store' = store
        /\ last' = Ret("DeleteOne", <<>>, f, EmptyM, 0, FALSE, "validation", <<>>, 0)
     \/ /\ LenM(f) # 0
        /\ \E fail \in BOOLEAN :
             \/ /\ fail
                /\ store' = store
                /\ last' = Ret("DeleteOne", <<>>, f, EmptyM, 0, TRUE, "store", <<>>, 0)
             \/ /\ ~fail
                /\ Matching(store, f) = {}
                /\ store' = store
                /\ last' = Ret("DeleteOne", <<>>, f, EmptyM, 0, TRUE, "", <<>>, 0)
             \/ /\ ~fail
                /\ \E d \in Matching(store, f) :
                     /\ store' = store \ {d}
                     /\ last' = Ret("DeleteOne", <<>>, f, EmptyM, 0, TRUE, "", <<>>, 0)
  /\ UNCHANGED <<mem, now, nextId>>

\* Collection.DeleteMany: removes every match and counts them
StoreDeleteMany(s, f, fail) ==
  IF fail THEN [err |-> "store", store |-> s, n |-> 0]
  ELSE [err |-> "", store |-> s \ Matching(s, f), n |-> Cardinality(Matching(s, f))]

DeleteManyUnguarded(f) ==
  /\ Step
  /\ \E fail \in BOOLEAN :
       LET out == StoreDeleteMany(store, f, fail)
       IN /\ store' = out.store
          /\ last' = Ret("DeleteMany", <<>>, f, EmptyM, 0, TRUE, out.err, <<>>, out.n)
  /\ UNCHANGED <<mem, now, nextId>>

DeleteMany(f) ==
  /\ Step
  /\ \/ /\ LenM(f) = 0
        /\ store' = store
        /\ last' = Ret("DeleteMany", <<>>, f, EmptyM, 0, FALSE, "validation", <<>>, 0)
     \/ /\ LenM(f) # 0
        /\ \E fail \in BOOLEAN :
             LET out == StoreDeleteMany(store, f, fail)
             IN /\ store' = out.store
                /\ last' = Ret("DeleteMany", <<>>, f, EmptyM, 0, TRUE, out.err, <<>>, out.n)
  /\ UNCHANGED <<mem, now, nextId>>

\* mongo.WriteModel: InsertOneModel{Document: doc} or DeleteManyModel{Filter: f}
InsertOneModel(r) == [kind |-> "insert", ref |-> r, filter |-> EmptyM]

DeleteManyModel(f) == [kind |-> "delete", ref |-> 0, filter |-> f]

WriteModels == {InsertOneModel(r) : r \in Refs} \cup {DeleteManyModel(f) : f \in Filters}

Bulks == UNION {[1..n -> WriteModels] : n \in 0..MaxBulk}

\* Collection.BulkWrite (ordered): rejects an empty slice; the driver adds an _id to
\* an inserted document that has none; stops at the first write error, keeping what
\* it wrote
RECURSIVE BulkApply(_, _, _, _, _)
BulkApply(s, models, i, nid, n) ==
  IF Len(models) = 0 THEN [err |-> "store", store |-> s, nid |-> nid, n |-> n, ok |-> TRUE]
  ELSE IF i > Len(models) THEN [err |-> "", store |-> s, nid |-> nid, n |-> n, ok |-> TRUE]
  ELSE LET w == models[i]
       IN IF w.kind = "delete"
          THEN BulkApply(s \ Matching(s, w.filter), models, i + 1, nid,
                         n + Cardinality(Matching(s, w.filter)))
          ELSE LET d == Marshal(mem[w.ref])
               IN IF d.id = NilObjectID
                  THEN IF nid > MaxId
                       THEN [err |-> "", store |-> s, nid |-> nid, n |-> n, ok |-> FALSE]
                       ELSE BulkApply(s \cup {[d EXCEPT !.id = nid]}, models, i + 1, nid + 1, n + 1)
                  ELSE IF HasId(s, d.id)
                       THEN [err |-> "store", store |-> s, nid |-> nid, n |-> n, ok |-> TRUE]
                       ELSE BulkApply(s \cup {d}, models, i + 1, nid, n + 1)

BulkWrite(models) ==
  /\ Step
  /\ \/ /\ Len(models) = 0
        /\ UNCHANGED <<store, nextId>>
        /\ last' = Ret("BulkWrite", <<>>, EmptyM, EmptyM, 0, FALSE, "", <<>>, 0)
     \/ /\ Len(models) # 0
        /\ \E fail \in BOOLEAN :
             IF fail
             THEN /\ UNCHANGED <<store, nextId>>
                  /\ last' = Ret("BulkWrite", <<>>, EmptyM, EmptyM, Len(models), TRUE, "store", <<>>, 0)
             ELSE LET out == BulkApply(store, models, 1, nextId, 0)
                  IN /\ out.ok
                     /\ store' = out.store
                     /\ nextId' = out.nid
                     /\ last' = Ret("BulkWrite", <<>>, EmptyM, EmptyM, Len(models), TRUE, out.err, <<>>, out.n)
  /\ UNCHANGED <<mem, now>>

Next ==
  \/ \E r \in Refs : \E n \in Names : SetName(r, n)
  \/ \E r \in Refs : DocInitMongoID(r)
  \/ \E r \in Refs : DocResetMongoID(r)
  \/ \E r \in Refs : DocInitDocument(r)
  \/ \E f \in Filters : FindOne(f)
  \/ \E f \in Filters : FindMany(f)
  \/ \E r \in Refs : InsertOne(r)
  \/ \E refs \in Batches : InsertMany(refs)
  \/ \E f \in Filters : \E data \in Datas : UpdateOne(f, data)
  \/ \E f \in Filters : \E n \in Names : UpdateMany(f, NameFilter(n))
  \/ \E f \in Filters : \E r \in Refs : ReplaceOne(f, r)
  \/ \E f \in Filters : DeleteOne(f)
  \/ \E f \in Filters : DeleteMany(f)
  \/ \E models \in Bulks : BulkWrite(models)

Spec == Init /\ [][Next]_vars

\* ------------------------------------------------ TestInsertUsers
\* the test's session: three new users, InsertMany, FindMany, DeleteMany, FindMany
TestUsers == 3

InitUsers ==
  /\ mem \in [1..TestUsers -> {NewUser(n) : n \in Names}]
  /\ store = {}
  /\ now \in ClockStart..MaxTime
  /\ nextId = 1
  /\ last = Ret("NewRepository", <<>>, EmptyM, EmptyM, 0, FALSE, "", <<>>, 0)
  /\ steps = 0
  /\ reads = 0
  /\ repo = NewRepository("users")
  /\ frames = [p \in 1..TestUsers |-> IdleFrame]
  /\ calls = <<>>

UsersInsert == last.op = "NewRepository" /\ InsertMany([i \in 1..TestUsers |-> i])

UsersFind == last.op = "InsertMany" /\ last.err = "" /\ FindMany(NewFilter(<<>>))

UsersDelete == last.op = "FindMany" /\ last.err = "" /\ steps = 1 /\ DeleteMany(NewFilter(<<>>))

UsersFindAgain == last.op = "DeleteMany" /\ FindMany(NewFilter(<<>>))

NextUsers == UsersInsert \/ UsersFind \/ UsersDelete \/ UsersFindAgain

SpecUsers == InitUsers /\ [][NextUsers]_vars

\* ------------------------------------------- concurrent callers
\* Several callers share one Repository.  Caller p holds the document mem[p] and
\* makes one call at a time; a call is the statements of its method, one step for
\* each statement that reads or writes something shared (the ObjectID generator,
\* the clock, the collection).  The collection serves one call at a time.
Callers == Refs

\* what the collection was handed in one call, and what it chose
CallRec(p, op, f, data, docs, models, fail, pick, srvT) ==
  [p |-> p, op |-> op, filter |-> f, data |-> data, docs |-> docs, models |-> models,
   fail |-> fail, pick |-> pick, at |-> srvT]

Enter(p) == frames[p].pc = "idle" /\ frames[p].made < MaxCalls

\* the frame of p once it has entered op and stands before the statement pc
Entered(p, op, f, pc) ==
  [pc |-> pc, op |-> op, filter |-> f, cur |-> <<>>,
   err |-> "", res |-> <<>>, n |-> 0, at |-> 0, made |-> frames[p].made + 1]

\* the frame of p once op has returned; at is the place of its call in calls
Returned(p, op, f, err, res, n, at) ==
  [pc |-> "idle", op |-> op, filter |-> f, cur |-> <<>>,
   err |-> err, res |-> res, n |-> n, at |-> at,
   made |-> IF frames[p].pc = "idle" THEN frames[p].made + 1 ELSE frames[p].made]

\* the collection serves call c of p, which then returns (err, res, n)
Serve(p, c, err, res, n) ==
  /\ calls' = Append(calls, c)
  /\ frames' = [frames EXCEPT ![p] = Returned(p, c.op, c.filter, err, res, n, Len(calls) + 1)]
  /\ UNCHANGED <<last, steps, reads, repo>>

\* p returns without a call to the collection
Skip(p, op, f, err) ==
  /\ frames' = [frames EXCEPT ![p] = Returned(p, op, f, err, <<>>, 0, 0)]
  /\ UNCHANGED <<calls, last, steps, reads, repo>>

CFindOne(p, f) ==
  /\ Enter(p)
  /\ \E fail \in BOOLEAN :
       \/ /\ fail
          /\ Serve(p, CallRec(p, "FindOne", f, EmptyM, <<>>, <<>>, TRUE, <<>>, ZeroTime),
                   "store", <<ZeroDoc>>, 0)
       \/ /\ ~fail
          /\ Matching(store, f) = {}
          /\ Serve(p, CallRec(p, "FindOne", f, EmptyM, <<>>, <<>>, FALSE, <<>>, ZeroTime),
                   "notfound", <<ZeroDoc>>, 0)
       \/ /\ ~fail
          /\ \E d \in Matching(store, f) :
               Serve(p, CallRec(p, "FindOne", f, EmptyM, <<>>, <<>>, FALSE, <<d>>, ZeroTime),
                     "", <<Decode(d)>>, 0)
  /\ UNCHANGED <<mem, store, now, nextId>>

\* r.db.Find(ctx, filter): the cursor over the documents that match now
Find(f) == SetToSeq(Matching(store, f))

\* FindMany up to cur, err := r.db.Find(...)
CFind(p, f) ==
  /\ Enter(p)
  /\ \E fail \in BOOLEAN :
       IF fail
       THEN Serve(p, CallRec(p, "FindMany", f, EmptyM, <<>>, <<>>, TRUE, <<>>, ZeroTime),
                  "store", <<>>, 0)
       ELSE /\ calls' = Append(calls, CallRec(p, "FindMany", f, EmptyM, <<>>, <<>>, FALSE, <<>>, ZeroTime))
            /\ frames' = [frames EXCEPT ![p] =
                            [Entered(p, "FindMany", f, "All") EXCEPT !.cur = Find(f),
                                                                     !.at = Len(calls) + 1]]
            /\ UNCHANGED <<last, steps, reads, repo>>
  /\ UNCHANGED <<mem, store, now, nextId>>

\* FindMany from cur.All(ctx, &res) on: the cursor holds its documents already
CAll(p) ==
  /\ frames[p].pc = "All"
  /\ \E fail \in BOOLEAN :
       frames' = [frames EXCEPT ![p] =
                    Returned(p, "FindMany", frames[p].filter,
                             IF fail THEN "store" ELSE "",
                             IF fail THEN <<>> ELSE DecodeAll(frames[p].cur), 0, frames[p].at)]
  /\ UNCHANGED <<mem, store, now, nextId, calls, last, steps, reads, repo>>

\* InsertOne(doc) and InsertMany([doc]) up to doc.InitMongoID()
CInsertBegin(p, op) ==
  /\ Enter(p)
  /\ (mem[p].id = NilObjectID => nextId <= MaxId)
  /\ mem' = [mem EXCEPT ![p] = InitMongoID(@, nextId)]
  /\ nextId' = IF mem[p].id = NilObjectID THEN nextId + 1 ELSE nextId
  /\ frames' = [frames EXCEPT ![p] = Entered(p, op, EmptyM, "SetCreatedAt")]
  /\ UNCHANGED <<store, now, calls, last, steps, reads, repo>>

\* InsertMany of no documents
CInsertManyEmpty(p) ==
  /\ Enter(p)
  /\ Skip(p, "InsertMany", EmptyM, "")
  /\ UNCHANGED <<mem, store, now, nextId>>

\* doc.SetCreatedAt(time.Now())
CSetCreatedAt(p) ==
  /\ frames[p].pc = "SetCreatedAt"
  /\ \E t \in now..MaxTime :
       /\ mem' = [mem EXCEPT ![p] = SetCreatedAt(@, t)]
       /\ now' = t
  /\ frames' = [frames EXCEPT ![p].pc = "SetUpdatedAt"]
  /\ UNCHANGED <<store, nextId, calls, last, steps, reads, repo>>

\* ReplaceOne(filter, doc) before its first statement
CReplaceBegin(p, f) ==
  /\ Enter(p)
  /\ frames' = [frames EXCEPT ![p] = Entered(p, "ReplaceOne", f, "SetUpdatedAt")]
  /\ UNCHANGED <<mem, store, now, nextId, calls, last, steps, reads, repo>>

\* doc.SetUpdatedAt(time.Now())
CSetUpdatedAt(p) ==
  /\ frames[p].pc = "SetUpdatedAt"
  /\ \E t \in now..MaxTime :
       /\ mem' = [mem EXCEPT ![p] = SetUpdatedAt(@, t)]
       /\ now' = t
  /\ frames' = [frames EXCEPT ![p].pc = "call"]
  /\ UNCHANGED <<store, nextId, calls, last, steps, reads, repo>>

\* a repository that keeps the slice docs in a field of its own: a caller that
\* filled it later has overwritten it
DocsShared(p) ==
  IF \E q \in Callers \ {p} : frames[q].pc = "call" /\ frames[q].op = "InsertMany"
  THEN LET q == CHOOSE q \in Callers \ {p} : frames[q].pc = "call" /\ frames[q].op = "InsertMany"
       IN <<mem[q]>>
  ELSE <<mem[p]>>

\* docs := make([]interface{}, len(documents)); docs[i] = doc: the slice of this call
Docs(p) == <<mem[p]>>

\* r.db.InsertOne(ctx, doc) and r.db.InsertMany(ctx, docs), and the return
CInsertCall(p) ==
  /\ frames[p].pc = "call"
  /\ frames[p].op \in {"InsertOne", "InsertMany"}
  /\ \E fail \in BOOLEAN :
       LET doc == mem[p]
           c == CallRec(p, frames[p].op, EmptyM, EmptyM, <<doc>>, <<>>, fail, <<>>, ZeroTime)
           out == IF frames[p].op = "InsertOne"
                  THEN StoreInsertOne(store, Marshal(doc), fail)
                  ELSE StoreInsertMany(store, [i \in 1..Len(Docs(p)) |-> Marshal(Docs(p)[i])], fail)
       IN /\ store' = out.store
          /\ Serve(p, c, out.err,
                   IF frames[p].op = "InsertMany" /\ out.err # "" THEN <<>> ELSE <<GetDoc(doc)>>, 0)
  /\ UNCHANGED <<mem, now, nextId>>

\* r.db.ReplaceOne(ctx, filter, doc), and the return
CReplaceCall(p) ==
  /\ frames[p].pc = "call"
  /\ frames[p].op = "ReplaceOne"
  /\ \E fail \in BOOLEAN :
       LET doc == mem[p]
           f == frames[p].filter
           repl == Marshal(doc)
       IN \/ /\ fail
             /\ store' = store
             /\ Serve(p, CallRec(p, "ReplaceOne", f, EmptyM, <<doc>>, <<>>, TRUE, <<>>, ZeroTime),
                      "store", <<GetDoc(doc)>>, 0)
          \/ /\ ~fail
             /\ Matching(store, f) = {}
             /\ store' = store
             /\ Serve(p, CallRec(p, "ReplaceOne", f, EmptyM, <<doc>>, <<>>, FALSE, <<>>, ZeroTime),
                      "", <<GetDoc(doc)>>, 0)
          \/ /\ ~fail
             /\ \E d \in Matching(store, f) :
                  /\ store' = IF ReplaceAllowed(d, repl)
                              THEN (store \ {d}) \cup {Replacement(d, repl)} ELSE store
                  /\ Serve(p, CallRec(p, "ReplaceOne", f, EmptyM, <<doc>>, <<>>, FALSE, <<d>>, ZeroTime),
                           IF ReplaceAllowed(d, repl) THEN "" ELSE "store", <<GetDoc(doc)>>, 0)
  /\ UNCHANGED <<mem, now, nextId>>

CUpdateOne(p, f, data) ==
  /\ Enter(p)
  /\ \E fail \in BOOLEAN : \E srvT \in ServerTimes :
       \/ /\ fail
          /\ store' = store
          /\ Serve(p, CallRec(p, "UpdateOne", f, data, <<>>, <<>>, TRUE, <<>>, ZeroTime), "store", <<>>, 0)
       \/ /\ ~fail
          /\ Matching(store, f) = {}
          /\ store' = store
          /\ Serve(p, CallRec(p, "UpdateOne", f, data, <<>>, <<>>, FALSE, <<>>, ZeroTime), "", <<>>, 0)
       \/ /\ ~fail
          /\ \E d \in Matching(store, f) :
               /\ store' = IF SetAllowed(d, data)
                           THEN (store \ {d}) \cup {ApplySet(d, data, srvT)} ELSE store
               /\ Serve(p, CallRec(p, "UpdateOne", f, data, <<>>, <<>>, FALSE, <<d>>, srvT),
                        IF SetAllowed(d, data) THEN "" ELSE "store", <<>>, 0)
  /\ UNCHANGED <<mem, now, nextId>>

CUpdateMany(p, f, data) ==
  /\ Enter(p)
  /\ \E fail \in BOOLEAN : \E srvT \in ServerTimes :
       /\ store' = IF fail THEN store
                   ELSE (store \ Matching(store, f))
                          \cup {ApplySet(d, data, srvT) : d \in Matching(store, f)}
       /\ Serve(p, CallRec(p, "UpdateMany", f, data, <<>>, <<>>, fail, <<>>,
                           IF fail \/ Matching(store, f) = {} THEN ZeroTime ELSE srvT),
                IF fail THEN "store" ELSE "", <<>>, 0)
  /\ UNCHANGED <<mem, now, nextId>>

CDeleteOne(p, f) ==
  /\ Enter(p)
  /\ \/ /\ LenM(f) = 0
        /\ store' = store
        /\ Skip(p, "DeleteOne", f, "validation")
     \/ /\ LenM(f) # 0
        /\ \E fail \in BOOLEAN :
             \/ /\ fail
                /\ store' = store
                /\ Serve(p, CallRec(p, "DeleteOne", f, EmptyM, <<>>, <<>>, TRUE, <<>>, ZeroTime), "store", <<>>, 0)
             \/ /\ ~fail
                /\ Matching(store, f) = {}
                /\ store' = store
                /\ Serve(p, CallRec(p, "DeleteOne", f, EmptyM, <<>>, <<>>, FALSE, <<>>, ZeroTime), "", <<>>, 0)
             \/ /\ ~fail
                /\ \E d \in Matching(store, f) :
                     /\ store' = store \ {d}
                     /\ Serve(p, CallRec(p, "DeleteOne", f, EmptyM, <<>>, <<>>, FALSE, <<d>>, ZeroTime), "", <<>>, 0)
  /\ UNCHANGED <<mem, now, nextId>>

CDeleteMany(p, f) ==
  /\ Enter(p)
  /\ \/ /\ LenM(f) = 0
        /\ store' = store
        /\ Skip(p, "DeleteMany", f, "validation")
     \/ /\ LenM(f) # 0
        /\ \E fail \in BOOLEAN :
             LET out == StoreDeleteMany(store, f, fail)
             IN /\ store' = out.store
                /\ Serve(p, CallRec(p, "DeleteMany", f, EmptyM, <<>>, <<>>, fail, <<>>, ZeroTime),
                         out.err, <<>>, out.n)
  /\ UNCHANGED <<mem, now, nextId>>

\* the slices the concurrent callers hand to BulkWrite: deletions
DeleteBulks == UNION {[1..n -> {DeleteManyModel(f) : f \in Filters}] : n \in 0..MaxBulk}

CBulkWrite(p, models) ==
  /\ Enter(p)
  /\ \/ /\ Len(models) = 0
        /\ store' = store
        /\ Skip(p, "BulkWrite", EmptyM, "")
     \/ /\ Len(models) # 0
        /\ \E fail \in BOOLEAN :
             LET out == BulkApply(store, models, 1, nextId, 0)
             IN /\ store' = IF fail THEN store ELSE out.store
                /\ Serve(p, CallRec(p, "BulkWrite", EmptyM, EmptyM, <<>>, models, fail, <<>>, ZeroTime),
                         IF fail THEN "store" ELSE out.err, <<>>, IF fail THEN 0 ELSE out.n)
  /\ UNCHANGED <<mem, now, nextId>>

NextConc ==
  \E p \in Callers :
    \/ \E f \in Filters : CFindOne(p, f)
    \/ \E f \in Filters : CFind(p, f)
    \/ CAll(p)
    \/ \E op \in {"InsertOne", "InsertMany"} : CInsertBegin(p, op)
    \/ CInsertManyEmpty(p)
    \/ CSetCreatedAt(p)
    \/ \E f \in Filters : CReplaceBegin(p, f)
    \/ CSetUpdatedAt(p)
    \/ CInsertCall(p)
    \/ CReplaceCall(p)
    \/ \E f \in Filters : \E n \in Names : CUpdateOne(p, f, NameFilter(n))
    \/ \E f \in Filters : \E n \in Names : CUpdateMany(p, f, NameFilter(n))
    \/ \E f \in Filters : CDeleteOne(p, f)
    \/ \E f \in Filters : CDeleteMany(p, f)
    \/ \E models \in DeleteBulks : CBulkWrite(p, models)

\* the callers start when caller 1 has inserted its document, alone
SeedDoc == Stamp(NewUser("a"), 1, ClockStart, ClockStart)

InitConc ==
  /\ mem = [r \in Refs |-> IF r = 1 THEN SeedDoc ELSE NewUser("b")]
  /\ store = {Marshal(SeedDoc)}
  /\ now = ClockStart
  /\ nextId = 2
  /\ last = Ret("NewRepository", <<>>, EmptyM, EmptyM, 0, FALSE, "", <<>>, 0)
  /\ steps = 0
  /\ reads = 0
  /\ repo = NewRepository("users")
  /\ frames = [p \in Callers |->
                 IF p = 1
                 THEN [IdleFrame EXCEPT !.op = "InsertOne", !.res = <<GetDoc(SeedDoc)>>, !.at = 1]
                 ELSE IdleFrame]
  /\ calls = <<CallRec(1, "InsertOne", EmptyM, EmptyM, <<SeedDoc>>, <<>>, FALSE, <<>>, ZeroTime)>>

SpecConc == InitConc /\ [][NextConc]_vars

\* ------------------------------------- one caller at a time (the reference)
Out(s, err, res, n) == [store |-> s, err |-> err, res |-> res, n |-> n]

\* what the repository does and returns when the call c is made, alone and as a
\* whole, on a collection that holds s; "diverged" when the collection cannot have
\* chosen as c says
Served(s, c) ==
  LET m == Matching(s, c.filter)
      picked == c.pick # <<>> /\ c.pick[1] \in m
  IN CASE c.op = "FindOne" ->
            IF c.fail THEN Out(s, "store", <<ZeroDoc>>, 0)
            ELSE IF m = {} THEN Out(s, "notfound", <<ZeroDoc>>, 0)
            ELSE IF picked THEN Out(s, "", <<Decode(c.pick[1])>>, 0)
            ELSE Out(s, "diverged", <<>>, 0)
       [] c.op = "FindMany" ->
            IF c.fail THEN Out(s, "store", <<>>, 0)
            ELSE Out(s, "", DecodeAll(SetToSeq(m)), 0)
       [] c.op = "InsertOne" ->
            LET out == StoreInsertOne(s, Marshal(c.docs[1]), c.fail)
            IN Out(out.store, out.err, <<GetDoc(c.docs[1])>>, 0)
       [] c.op = "InsertMany" ->
            LET out == StoreInsertMany(s, [i \in 1..Len(c.docs) |-> Marshal(c.docs[i])], c.fail)
            IN Out(out.store, out.err,
                   IF out.err = "" THEN [i \in 1..Len(c.docs) |-> GetDoc(c.docs[i])] ELSE <<>>, 0)
       [] c.op = "UpdateOne" ->
            IF c.fail THEN Out(s, "store", <<>>, 0)
            ELSE IF m = {} THEN Out(s, "", <<>>, 0)
            ELSE IF ~picked THEN Out(s, "diverged", <<>>, 0)
            ELSE IF SetAllowed(c.pick[1], c.data)
                 THEN Out((s \ {c.pick[1]}) \cup {ApplySet(c.pick[1], c.data, c.at)}, "", <<>>, 0)
                 ELSE Out(s, "store", <<>>, 0)
       [] c.op = "UpdateMany" ->
            IF c.fail THEN Out(s, "store", <<>>, 0)
            ELSE Out((s \ m) \cup {ApplySet(d, c.data, c.at) : d \in m}, "", <<>>, 0)
       [] c.op = "ReplaceOne" ->
            IF c.fail THEN Out(s, "store", <<GetDoc(c.docs[1])>>, 0)
            ELSE IF m = {} THEN Out(s, "", <<GetDoc(c.docs[1])>>, 0)
            ELSE IF ~picked THEN Out(s, "diverged", <<>>, 0)
            ELSE IF ReplaceAllowed(c.pick[1], Marshal(c.docs[1]))
                 THEN Out((s \ {c.pick[1]}) \cup {Replacement(c.pick[1], Marshal(c.docs[1]))},
                          "", <<GetDoc(c.docs[1])>>, 0)
                 ELSE Out(s, "store", <<GetDoc(c.docs[1])>>, 0)
       [] c.op = "DeleteOne" ->
            IF c.fail THEN Out(s, "store", <<>>, 0)
            ELSE IF m = {} THEN Out(s, "", <<>>, 0)
            ELSE IF picked THEN Out(s \ {c.pick[1]}, "", <<>>, 0)
            ELSE Out(s, "diverged", <<>>, 0)
       [] c.op = "DeleteMany" ->
            LET out == StoreDeleteMany(s, c.filter, c.fail)
            IN Out(out.store, out.err, <<>>, out.n)
       [] c.op = "BulkWrite" ->
            IF c.fail THEN Out(s, "store", <<>>, 0)
            ELSE LET out == BulkApply(s, c.models, 1, MaxId, 0)
                 IN Out(out.store, out.err, <<>>, out.n)

\* the calls log[1..i] made one after the other on an empty collection: the
\* collection afterwards and what every call returned
RECURSIVE Replay(_, _)
Replay(log, i) ==
  IF i = 0 THEN [store |-> {}, outs |-> <<>>]
  ELSE LET prev == Replay(log, i - 1)
           o == Served(prev.store, log[i])
       IN [store |-> o.store, outs |-> Append(prev.outs, [err |-> o.err, res |-> o.res, n |-> o.n])]


C2_InsertFindDeleteFind ==
  /\ (last.op = "FindMany" /\ last.err = "" /\ steps = 1)
       => /\ Len(last.res) = TestUsers
          /\ \A i \in 1..Len(last.res) : last.res[i] # ZeroDoc
  /\ (last.op = "DeleteMany" /\ last.err # "store")
       => /\ last.err = ""
          /\ last.n = TestUsers
  /\ (last.op = "FindMany" /\ last.err = "" /\ steps = 2)
       => last.res = <<>>

Populated(b) == b.id # NilObjectID /\ b.createdAt # ZeroTime /\ b.updatedAt # ZeroTime

\* C3 (as claimed): a document handed to InsertOne, InsertMany or ReplaceOne has a
\* non-zero identifier and both timestamps non-zero once the call has succeeded.
C3_PopulatedAfterWrite ==
  (last.op \in {"InsertOne", "InsertMany", "ReplaceOne"} /\ last.err = "")
    => \A i \in 1..Len(last.refs) : Populated(mem[last.refs[i]])

\* C3 (amended): after a successful InsertOne or InsertMany every document handed in,
\* and every document returned, has a non-zero identifier and both timestamps
\* non-zero; ReplaceOne sets UpdatedAt only: the document's UpdatedAt is non-zero
\* afterwards, its identifier and CreatedAt are what the caller handed in.
C3_InsertPopulatesReplaceStampsUpdatedAt ==
  [][/\ (last'.op \in {"InsertOne", "InsertMany"} /\ last'.err = "")
          => /\ \A i \in 1..Len(last'.refs) : Populated(mem'[last'.refs[i]])
             /\ \A i \in 1..Len(last'.res) : Populated(last'.res[i])
     /\ last'.op = "ReplaceOne"
          => /\ mem'[last'.refs[1]].updatedAt # ZeroTime
             /\ last'.res[1] = mem'[last'.refs[1]]
             /\ mem'[last'.refs[1]].id = mem[last'.refs[1]].id
             /\ mem'[last'.refs[1]].createdAt = mem[last'.refs[1]].createdAt]_vars

C3_Witness ==
  /\ last.op = "ReplaceOne"
  /\ last.err = ""
  /\ last.old # <<>>
  /\ mem[last.refs[1]].id = NilObjectID
  /\ mem[last.refs[1]].createdAt = ZeroTime

\* C4 (as claimed): a successful InsertOne of a document with a zero identifier
\* returns a document with a non-zero identifier and CreatedAt = UpdatedAt.
C4_CreatedEqualsUpdated ==
  [][(last'.op = "InsertOne" /\ last'.err = "" /\ mem[last'.refs[1]].id = NilObjectID)
       => /\ last'.res[1].id # NilObjectID
          /\ last'.res[1].createdAt = last'.res[1].updatedAt]_vars

\* C4 (amended): a successful InsertOne of a document with a zero identifier returns
\* a document with a non-zero identifier whose CreatedAt and UpdatedAt are two
\* successive readings of the clock: CreatedAt is non-zero and not after UpdatedAt.
C4_CreatedNotAfterUpdated ==
  [][(last'.op = "InsertOne" /\ last'.err = "" /\ mem[last'.refs[1]].id = NilObjectID)
       => /\ last'.res[1].id # NilObjectID
          /\ last'.res[1].createdAt # ZeroTime
          /\ last'.res[1].createdAt >= now
          /\ last'.res[1].createdAt <= last'.res[1].updatedAt
          /\ last'.res[1].updatedAt = now']_vars

C4_Witness ==
  /\ last.op = "InsertOne"
  /\ last.err = ""
  /\ steps = 1
  /\ last.res[1].id # NilObjectID
  /\ last.res[1].createdAt < last.res[1].updatedAt

\* C5: a successful InsertMany of a non-empty sequence of documents with zero
\* identifiers returns as many documents, the i-th being the i-th input as handed to
\* the collection, each with a non-zero identifier, and the collection then holds
\* those documents in addition to what it held before.
C5_InsertManySameOrder ==
  [][(/\ last'.op = "InsertMany"
      /\ last'.err = ""
      /\ Len(last'.refs) > 0
      /\ \A i \in 1..Len(last'.refs) : mem[last'.refs[i]].id = NilObjectID)
       => /\ Len(last'.res) = Len(last'.refs)
          /\ \A i \in 1..Len(last'.res) :
               /\ last'.res[i] = mem'[last'.refs[i]]
               /\ last'.res[i].id # NilObjectID
               /\ last'.res[i].name = mem[last'.refs[i]].name
               /\ Marshal(last'.res[i]) \notin store
          /\ \A i, j \in 1..Len(last'.res) : i # j => last'.res[i].id # last'.res[j].id
          /\ store' = store \cup {Marshal(last'.res[i]) : i \in 1..Len(last'.res)}
          /\ Cardinality(store') = Cardinality(store) + Len(last'.refs)]_vars

C5_Witness ==
  /\ last.op = "InsertMany"
  /\ last.err = ""
  /\ Len(last.res) = 2
  /\ last.res[1].id < last.res[2].id
  /\ steps = 2
  /\ Cardinality(store) = 3

\* C6: InsertMany of no documents and BulkWrite of no operations return an empty
\* result and no error, do not call the collection and change nothing, in every
\* state.
C6_EmptyBatchNoOp ==
  [][((last'.op = "InsertMany" /\ last'.refs = <<>>) \/ (last'.op = "BulkWrite" /\ last'.size = 0))
       => /\ last'.err = ""
          /\ last'.res = <<>>
          /\ last'.n = 0
          /\ ~last'.called
          /\ store' = store
          /\ mem' = mem
          /\ nextId' = nextId]_vars

C6_Witness ==
  /\ last.op = "InsertMany"
  /\ last.refs = <<>>
  /\ last.err = ""
  /\ store # {}
  /\ steps = MaxSteps

\* the call before was a successful op that matched a stored document, and this
\* call is a FindOne with the same filter that the collection answered
FindOneAfter(op) ==
  /\ last.op = op
  /\ last.err = ""
  /\ last.old # <<>>
  /\ last'.op = "FindOne"
  /\ last'.filter = last.filter
  /\ last'.err # "store"

\* C7 (as claimed): FindOne(filter) after a ReplaceOne(filter, d) that succeeded on
\* a matching document returns a document whose UpdatedAt is greater than the stored
\* document's was, and whose other fields are those of d.
C7_ReplaceThenFind ==
  [][FindOneAfter("ReplaceOne")
       => /\ last'.err = ""
          /\ last'.res[1].updatedAt > last.old[1].updatedAt
          /\ last'.res[1].id = last.res[1].id
          /\ last'.res[1].createdAt = last.res[1].createdAt
          /\ last'.res[1].name = last.res[1].name]_vars

\* C7 (amended): FindOne(filter) after a ReplaceOne(filter, d) that succeeded on an
\* identifier filter matching a stored document returns the document with that
\* identifier; its business fields are those of d, its CreatedAt and UpdatedAt are
\* those of d in milliseconds, UpdatedAt being the caller's clock at the replace.
C7_ReplaceThenFindById ==
  [][(FindOneAfter("ReplaceOne") /\ last.filter = MongoIDFilter(last.old[1].id))
       => /\ last'.err = ""
          /\ last'.res[1].id = last.old[1].id
          /\ last'.res[1].name = last.res[1].name
          /\ last'.res[1].createdAt = Trunc(last.res[1].createdAt)
          /\ last'.res[1].updatedAt = Trunc(last.res[1].updatedAt)
          /\ last'.res[1].updatedAt = Trunc(now)]_vars

C7_Witness ==
  /\ last.op = "ReplaceOne"
  /\ last.err = ""
  /\ last.old # <<>>
  /\ last.filter = MongoIDFilter(last.old[1].id)
  /\ last.res[1].name # last.old[1].name
  /\ Trunc(last.res[1].updatedAt) > last.old[1].updatedAt
  /\ Cardinality(store) >= 2

\* C8: FindOne(MongoIDFilter(id)) right after a successful InsertOne(d) that returned
\* identifier id returns, unless the call to the collection fails, a document with
\* identifier id and the business fields of d.
C8_InsertThenFindById ==
  [][(/\ last.op = "InsertOne"
      /\ last.err = ""
      /\ last'.op = "FindOne"
      /\ last'.filter = MongoIDFilter(last.res[1].id)
      /\ last'.err # "store")
       => /\ last'.err = ""
          /\ last'.res[1].id = last.res[1].id
          /\ last'.res[1].name = last.res[1].name
          /\ last'.res[1].name = mem[last.refs[1]].name]_vars

C8_Witness ==
  /\ last.op = "InsertOne"
  /\ last.err = ""
  /\ Cardinality(store) >= 2
  /\ \E d \in store : d.id # last.res[1].id /\ d.name # last.res[1].name

FieldsSet(d, data) ==
  /\ ("name" \in data.keys => d.name = data.name)
  /\ ("_id" \in data.keys => d.id = data.id)

FieldsKept(d, o, data) ==
  /\ d.createdAt = o.createdAt
  /\ ("name" \notin data.keys => d.name = o.name)
  /\ ("_id" \notin data.keys => d.id = o.id)

\* C9 (as claimed): FindOne(filter) after an UpdateOne(filter, {field: v}) that
\* succeeded on a matching document returns a document with field = v and UpdatedAt
\* the time of the update, every other field as the stored document had it.
C9_UpdateThenFind ==
  [][FindOneAfter("UpdateOne")
       => /\ last'.err = ""
          /\ FieldsSet(last'.res[1], last.data)
          /\ last'.res[1].updatedAt = last.at
          /\ FieldsKept(last'.res[1], last.old[1], last.data)]_vars

\* C9 (amended): an UpdateOne(filter, {field: v}) that succeeds on a matching
\* document leaves that document with field = v, UpdatedAt the collection's time of
\* the update and every other field as before, and every other document as it was;
\* FindOne(filter) returns that document when filter is an identifier filter.
C9_UpdateSetsFieldAndTime ==
  [][/\ (last'.op = "UpdateOne" /\ last'.err = "" /\ last'.old # <<>>)
          => /\ last'.old[1] \in store
             /\ Matches(last'.old[1], last'.filter)
             /\ store' = (store \ {last'.old[1]}) \cup {last'.res[1]}
             /\ FieldsSet(last'.res[1], last'.data)
             /\ last'.res[1].updatedAt = last'.at
             /\ FieldsKept(last'.res[1], last'.old[1], last'.data)
             /\ last'.res[1].id = last'.old[1].id
     /\ (FindOneAfter("UpdateOne") /\ last.filter = MongoIDFilter(last.old[1].id))
          => /\ last'.err = ""
             /\ last'.res[1] = last.res[1]]_vars

C9_Witness ==
  /\ last.op = "UpdateOne"
  /\ last.err = ""
  /\ last.old # <<>>
  /\ "name" \in last.data.keys
  /\ last.res[1].name # last.old[1].name
  /\ last.res[1].updatedAt # last.old[1].updatedAt
  /\ Cardinality(store) >= 2

\* C10: InitMongoID assigns a new identifier exactly when the identifier is zero and
\* changes nothing when called again; InsertOne and InsertMany keep an identifier
\* that is set; an identifier that is set changes only by ResetMongoID, to zero.
C10_IdentifierSetOnce ==
  [][\A r \in DOMAIN mem :
       /\ (mem[r].id # NilObjectID /\ mem'[r].id # mem[r].id)
            => (last'.op = "ResetMongoID" /\ last'.refs = <<r>> /\ mem'[r].id = NilObjectID)
       /\ (last'.op = "InitMongoID" /\ last'.refs = <<r>>)
            => /\ (mem[r].id = NilObjectID) <=> (mem'[r].id # mem[r].id)
               /\ mem'[r].id # NilObjectID
               /\ InitMongoID(mem'[r], nextId') = mem'[r]
       /\ (last'.op \in {"InitMongoID", "InsertOne", "InsertMany"}
             /\ (\E i \in 1..Len(last'.refs) : last'.refs[i] = r)
             /\ mem[r].id = NilObjectID)
            => /\ mem'[r].id # NilObjectID
               /\ \A q \in DOMAIN mem : q # r => mem'[q].id # mem'[r].id
               /\ ~HasId(store, mem'[r].id)]_vars

C10_Witness ==
  /\ last.op = "InsertOne"
  /\ last.err = "store"
  /\ mem[last.refs[1]].id # NilObjectID
  /\ HasId(store, mem[last.refs[1]].id)

\* the stored document that carries the identifier and CreatedAt of the caller's
\* document b: b has been persisted by a successful insert
Persisted(b, s) ==
  /\ b.id # NilObjectID
  /\ b.createdAt # ZeroTime
  /\ \E d \in s : d.id = b.id /\ d.createdAt = Trunc(b.createdAt)

\* C12: once a document has been persisted, no InsertOne, InsertMany, UpdateOne,
\* UpdateMany or ReplaceOne (repeated or failing inserts included) changes its
\* CreatedAt, neither in the caller's copy nor in the collection.
C12_CreatedAtSetOnce ==
  [][\A r \in DOMAIN mem :
       (/\ last'.op \in {"InsertOne", "InsertMany", "UpdateOne", "UpdateMany", "ReplaceOne"}
        /\ Persisted(mem[r], store))
         => /\ mem'[r].createdAt = mem[r].createdAt
            /\ \A d \in store' : d.id = mem[r].id => d.createdAt = Trunc(mem[r].createdAt)]_vars

\* what the caller behind frame fr got is what the reference call returned; a
\* FindMany whose cursor failed in cur.All returns the error instead
Agrees(fr, o) ==
  \/ fr.err = o.err /\ fr.res = o.res /\ fr.n = o.n
  \/ fr.op = "FindMany" /\ o.err = "" /\ fr.err = "store" /\ fr.res = <<>>

\* the collection and every returned call are as if the calls had been made one
\* at a time in the order the collection served them
Linearized ==
  LET run == Replay(calls, Len(calls))
  IN /\ store = run.store
     /\ \A p \in Callers :
          (frames[p].pc = "idle" /\ frames[p].op # "")
            => IF frames[p].at = 0
               THEN frames[p].res = <<>> /\ frames[p].n = 0 /\ frames[p].err \in {"", "validation"}
               ELSE /\ calls[frames[p].at].p = p
                    /\ calls[frames[p].at].op = frames[p].op
                    /\ Agrees(frames[p], run.outs[frames[p].at])

\* C11: whatever the interleaving of the callers' steps, the Repository struct is
\* as NewRepository built it (no step changes its binding to the collection), and
\* the collection's contents and every result returned are those of the same calls
\* made one at a time, in the order the collection served them.
C11_SafeForConcurrentUse ==
  /\ repo = NewRepository("users")
  /\ Linearized

\* a FindMany whose cursor was opened before another caller's insert was served
\* and that returned after it: its result lacks the inserted document
C11_Witness ==
  \E p \in Callers :
    /\ frames[p].pc = "idle"
    /\ frames[p].op = "FindMany"
    /\ frames[p].err = ""
    /\ frames[p].filter = EmptyM
    /\ frames[p].at < Len(calls)
    /\ Len(frames[p].res) = 1
    /\ Cardinality(store) = 2
    /\ \A q \in Callers \ {p} : frames[q].pc = "idle" /\ frames[q].made = MaxCalls

====
